---- MODULE Spec2Model ----
(***************************************************************************)
(* The analysis session of the ReadRight client (frontend/src/App.js, the  *)
(* version with filters and per-sentence rewrites): the React state of     *)
(* App, its event handlers, the continuations of its two asynchronous      *)
(* calls (/analyze, /rewrite) and the derived views.  The earlier version *)
(* of App (src/frontend/src/App.js: file, status, error, result) is        *)
(* modelled in the last section, on its own state.                         *)
(*                                                                         *)
(* A handler runs to its first await as one step; the continuation after   *)
(* the await runs as another step when the call resolves.  The state       *)
(* updates of one step are committed together, and a handler reads the     *)
(* state of the last commit.                                               *)
(*                                                                         *)
(* The base URL (apiBase), the metrics of the response (grade_level, ...)   *)
(* and the layout are left out: no handler reads them to decide a state    *)
(* update.  The status pill "Analyzing..." is written "Analyzing".         *)
(*                                                                         *)
(* A JavaScript string that the code builds by concatenation is a sequence *)
(* of its parts (<<>> is the empty string); other strings are TLA+ strings *)
(* ("" is the empty string).  null is the empty sequence where a value may *)
(* be absent (analysis) and the string "null" for the file.                *)
(***************************************************************************)
EXTENDS Integers, Sequences, FiniteSets, TLC

VARIABLES
    file,               \* useState(null): the chosen file, or NoFile
    fileName,           \* useState(""): its name
    loading,            \* useState(false)
    statusPill,         \* useState("Idle")
    error,              \* useState(""): the session-level error banner
    analysis,           \* useState(null): NoAnalysis or <<data>>
    minRisk,            \* useState(1)
    topN,               \* useState(10)
    rewriteBySentence,  \* useState({}): sentence text -> {loading, error, output}
    analyzePending,     \* outstanding /analyze calls, by the file each carries
    rewritePending,     \* outstanding /rewrite calls, by the sentence each carries
    status,             \* earlier App: useState("idle"), idle|analyzing|done|error
    result              \* earlier App: useState(null): NoAnalysis or <<data>>

vars == <<file, fileName, loading, statusPill, error, analysis, minRisk, topN,
          rewriteBySentence, analyzePending, rewritePending, status, result>>

\* The state of the earlier App that the later one does not have.
earlierVars == <<status, result>>

sessionVars == <<file, fileName, loading, statusPill, error, analysis,
                 analyzePending>>

-----------------------------------------------------------------------------
(* Bounds of the model *)

\* Outstanding /rewrite calls per sentence text the model follows.
MaxRewriteCalls == 2

\* Outstanding /analyze calls the model follows.
MaxAnalyzeCalls == 2

-----------------------------------------------------------------------------
(* Constants of the program *)

DefaultMinRisk == 1
DefaultTopN == 10
MinRiskLow == 0
MinRiskHigh == 999
TopNLow == 1
TopNHigh == 200
TopNFallback == 10
JudgeCount == 5
SliderMin == 0
SliderMax == 10

-----------------------------------------------------------------------------
(* Values *)

NoFile == "null"
Files == {"a.pdf", "b.pdf"}

NoAnalysis == <<>>

EmptyStr == <<>>

\* A scored sentence as the backend sends it; the score may be absent.
SS(s, n) == [sentence |-> s, score |-> n]
Unscored(s) == [sentence |-> s]

\* The /analyze bodies the backend of the session model answers with.
DocAB == [all_sentences |-> <<SS("A", 2), SS("B", 9)>>]
DocB == [all_sentences |-> <<SS("B", 7)>>,
         top_risk_sentences |-> <<SS("B", 7)>>]
SessionDocs == {DocAB, DocB}

\* A long document: TopNHigh + 2 sentences, scores 2, 1, 0, 2, 1, 0, ...
LongDoc ==
    [all_sentences |-> [i \in 1..(TopNHigh + 2) |-> SS("S", 2 - (i % 3))]]

\* The /analyze bodies of the view model.
ViewDocs ==
    { [all_sentences |-> <<SS("A", 2), SS("B", 9), SS("C", 5)>>],
      [all_sentences |-> <<SS("A", 5), SS("B", 9), SS("C", 5), SS("A", 9)>>],
      [all_sentences |-> <<SS("A", 0), Unscored("B"), SS("C", 1), SS("D", -1)>>],
      [all_sentences |-> <<SS("A", 3), SS("B", 4), SS("C", 5), SS("D", 6),
                           SS("E", 7), SS("F", 8), SS("G", 9)>>,
       top_risk_sentences |-> <<>>],
      [all_sentences |-> <<SS("A", 1), SS("B", 8)>>,
       top_risk_sentences |-> <<SS("B", 8), SS("A", 1)>>],
      [top_risk_sentences |-> <<SS("A", 6)>>],
      LongDoc }

Keys == {"A", "B", "C", "D", "E", "F", "G", "S"}

\* A failed call: a non-2xx response with its body text, or an exception of
\* fetch()/res.json() with its message.
HttpFailures == { [kind |-> "http", status |-> "500", body |-> <<"bad pdf">>] }
Thrown == { [kind |-> "throw", message |-> <<"Failed to fetch">>],
            [kind |-> "throw", message |-> EmptyStr] }
Failures == HttpFailures \cup Thrown

\* The /rewrite bodies the backend answers with.
RewriteBodies ==
    { [rewrite |-> "Simpler."],
      [rewrite |-> "", rewritten |-> "", text |-> "Simpler."],
      [rewritten |-> ""],
      [other |-> "x"] }

-----------------------------------------------------------------------------
(* Pure helpers *)

Max2(a, b) == IF a >= b THEN a ELSE b
Min2(a, b) == IF a <= b THEN a ELSE b

clamp(n, a, b) == Max2(a, Min2(b, n))

\* x || d for a number x: 0 (and NaN) is falsy.
NumOr(x, d) == IF x = 0 THEN d ELSE x

\* s || d for a string s.
StrOr(s, d) == IF s = "" THEN d ELSE s

\* m || d for a string built from parts.
MsgOr(m, d) == IF m = EmptyStr THEN d ELSE m

\* obj?.f || "" for a string field that may be absent.
Field(obj, f) == IF f \in DOMAIN obj THEN obj[f] ELSE ""

\* x.score ?? 0
ScoreOf(x) == IF "score" \in DOMAIN x THEN x.score ELSE 0

\* analysis?.all_sentences, [] when absent
AllSentences(a) ==
    IF a = NoAnalysis THEN <<>>
    ELSE IF "all_sentences" \in DOMAIN a[1] THEN a[1].all_sentences
    ELSE <<>>

\* analysis?.top_risk_sentences, [] when absent
TopRisk(a) ==
    IF a = NoAnalysis THEN <<>>
    ELSE IF "top_risk_sentences" \in DOMAIN a[1] THEN a[1].top_risk_sentences
    ELSE <<>>

\* The elements of arr whose score is v, in the order they have in arr.
WithScore(arr, v) == LET Has(x) == ScoreOf(x) = v IN SelectSeq(arr, Has)

\* The elements of arr with a score of the set, the greatest score first.
RECURSIVE ByScoreDesc(_, _)
ByScoreDesc(arr, scores) ==
    IF scores = {} THEN <<>>
    ELSE LET top == CHOOSE v \in scores : \A w \in scores : v >= w
         IN  WithScore(arr, top) \o ByScoreDesc(arr, scores \ {top})

\* [...arr].sort((a, b) => (b.score ?? 0) - (a.score ?? 0)).  Array.prototype.sort
\* is stable: the elements come by decreasing score, those of one score in the
\* order they have in arr.
SortDesc(arr) == ByScoreDesc(arr, {ScoreOf(arr[i]) : i \in DOMAIN arr})

\* arr.slice(0, n) for n >= 0
Slice0(arr, n) == SubSeq(arr, 1, Min2(n, Len(arr)))

-----------------------------------------------------------------------------
(* Derived views (useMemo) *)

allSortedOf(a) == SortDesc(AllSentences(a))

\* filteredOf as it would be if it kept the sentences below the minimum.
filteredOfBelow(sorted, mr) ==
    LET min == clamp(NumOr(mr, 0), MinRiskLow, MinRiskHigh)
        Keep(x) == ScoreOf(x) <= min
    IN  SelectSeq(sorted, Keep)

filteredOf(sorted, mr) ==
    LET min == clamp(NumOr(mr, 0), MinRiskLow, MinRiskHigh)
        Keep(x) == ScoreOf(x) >= min
    IN  SelectSeq(sorted, Keep)

topShownOf(flt, tn) ==
    LET n == clamp(NumOr(tn, TopNFallback), TopNLow, TopNHigh)
    IN  Slice0(flt, n)

\* The shortlist with the backend's list taken whenever the field is present,
\* an empty list included.
judgeFriendlyOfPresent(a, shown) ==
    IF a # NoAnalysis /\ "top_risk_sentences" \in DOMAIN a[1]
    THEN TopRisk(a)
    ELSE Slice0(shown, JudgeCount)

judgeFriendlyOf(a, shown) ==
    IF Len(TopRisk(a)) # 0 THEN TopRisk(a) ELSE Slice0(shown, JudgeCount)

allSorted == allSortedOf(analysis)
filtered == filteredOf(allSorted, minRisk)
topShown == topShownOf(filtered, topN)
judgeFriendly == judgeFriendlyOf(analysis, topShown)

\* The sentence texts that have a SentenceCard on the page.
Range(s) == {s[i] : i \in DOMAIN s}
Displayed ==
    IF analysis = NoAnalysis THEN {}
    ELSE {x.sentence : x \in Range(judgeFriendly) \cup Range(topShown)}

-----------------------------------------------------------------------------
(* The rewrite cache *)

NoEntries == <<>>

HasEntry(m, key) == key \in DOMAIN m

\* { ...prev, [key]: entry }
Put(prev, key, entry) ==
    [k \in DOMAIN prev \cup {key} |-> IF k = key THEN entry ELSE prev[k]]

\* prev?.[key]?.output || ""
PrevOutput(prev, key) == IF HasEntry(prev, key) THEN prev[key].output ELSE ""

\* The Rewrite button of the cards of a sentence: disabled={loading}.
RewriteDisabled(key) ==
    HasEntry(rewriteBySentence, key) /\ rewriteBySentence[key].loading

\* existing?.output && !existing?.error
HaveOutput(key) ==
    /\ HasEntry(rewriteBySentence, key)
    /\ rewriteBySentence[key].output # ""
    /\ rewriteBySentence[key].error = EmptyStr

\* data?.rewrite || data?.rewritten || data?.text || ""
ExtractRewrite(data) ==
    StrOr(Field(data, "rewrite"),
          StrOr(Field(data, "rewritten"), StrOr(Field(data, "text"), "")))

\* `${what} failed (${res.status}). ${txt}`
HttpMessage(what, f) == <<what, " failed (", f.status, "). ">> \o f.body

\* The message of the exception the catch block sees.
Caught(what, f) == IF f.kind = "http" THEN HttpMessage(what, f) ELSE f.message

-----------------------------------------------------------------------------
(* Initial state: the state of App after its first render *)

Init ==
    /\ file = NoFile
    /\ fileName = ""
    /\ loading = FALSE
    /\ statusPill = "Idle"
    /\ error = EmptyStr
    /\ analysis = NoAnalysis
    /\ minRisk = DefaultMinRisk
    /\ topN = DefaultTopN
    /\ rewriteBySentence = NoEntries
    /\ analyzePending = [f \in Files |-> 0]
    /\ rewritePending = [k \in Keys |-> 0]
    /\ status = "idle"
    /\ result = NoAnalysis

-----------------------------------------------------------------------------
(* Handlers *)

\* onPickFile(e), with f = e.target.files?.[0] || null
\* A file pick that only marks the session stale: the previous analysis and
\* the rewrite mapping stay.
onPickFileMarksStale(f) ==
    /\ file' = f
    /\ fileName' = IF f = NoFile THEN "" ELSE f
    /\ error' = EmptyStr
    /\ statusPill' = "Ready"
    /\ UNCHANGED <<analysis, rewriteBySentence, loading, minRisk, topN,
                   analyzePending, rewritePending>>

\* A file pick that also ends the busy state of the session.
onPickFileResetsLoading(f) ==
    /\ file' = f
    /\ fileName' = IF f = NoFile THEN "" ELSE f
    /\ analysis' = NoAnalysis
    /\ error' = EmptyStr
    /\ statusPill' = "Ready"
    /\ rewriteBySentence' = NoEntries
    /\ loading' = FALSE
    /\ UNCHANGED <<minRisk, topN, analyzePending, rewritePending>>

onPickFile(f) ==
    /\ file' = f
    /\ fileName' = IF f = NoFile THEN "" ELSE f
    /\ analysis' = NoAnalysis
    /\ error' = EmptyStr
    /\ statusPill' = "Ready"
    /\ rewriteBySentence' = NoEntries
    /\ UNCHANGED <<loading, minRisk, topN, analyzePending, rewritePending>>

\* The number of outstanding /analyze calls
RECURSIVE SumOver(_, _)
SumOver(f, S) ==
    IF S = {} THEN 0
    ELSE LET x == CHOOSE y \in S : TRUE IN f[x] + SumOver(f, S \ {x})

AnalyzeCalls == SumOver(analyzePending, Files)

\* analyzePdf() as it would be if the missing file also set the status pill.
analyzePdfErrorPill ==
    IF file = NoFile
    THEN /\ error' = <<"Choose a PDF first.">>
         /\ statusPill' = "Error"
         /\ UNCHANGED <<file, fileName, loading, analysis, minRisk, topN,
                        rewriteBySentence, analyzePending, rewritePending>>
    ELSE /\ AnalyzeCalls < MaxAnalyzeCalls
         /\ error' = EmptyStr
         /\ loading' = TRUE
         /\ statusPill' = "Analyzing"
         /\ analyzePending' = [analyzePending EXCEPT ![file] = @ + 1]
         /\ UNCHANGED <<file, fileName, analysis, minRisk, topN,
                        rewriteBySentence, rewritePending>>

\* analyzePdf() as it would be if it checked the file after setLoading(true).
analyzePdfLoadsFirst ==
    IF file = NoFile
    THEN /\ error' = <<"Choose a PDF first.">>
         /\ loading' = TRUE
         /\ statusPill' = "Analyzing"
         /\ UNCHANGED <<file, fileName, analysis, minRisk, topN,
                        rewriteBySentence, analyzePending, rewritePending>>
    ELSE /\ AnalyzeCalls < MaxAnalyzeCalls
         /\ error' = EmptyStr
         /\ loading' = TRUE
         /\ statusPill' = "Analyzing"
         /\ analyzePending' = [analyzePending EXCEPT ![file] = @ + 1]
         /\ UNCHANGED <<file, fileName, analysis, minRisk, topN,
                        rewriteBySentence, rewritePending>>

\* analyzePdf() up to the await of fetch(); with no file chosen it returns
\* before the call.
\* A submit that starts the call without clearing the previous error message.
analyzePdfKeepsError ==
    IF file = NoFile
    THEN /\ error' = <<"Choose a PDF first.">>
         /\ UNCHANGED <<file, fileName, loading, statusPill, analysis, minRisk,
                        topN, rewriteBySentence, analyzePending, rewritePending>>
    ELSE /\ AnalyzeCalls < MaxAnalyzeCalls
         /\ loading' = TRUE
         /\ statusPill' = "Analyzing"
         /\ analyzePending' = [analyzePending EXCEPT ![file] = @ + 1]
         /\ UNCHANGED <<file, fileName, error, analysis, minRisk, topN,
                        rewriteBySentence, rewritePending>>

analyzePdf ==
    IF file = NoFile
    THEN /\ error' = <<"Choose a PDF first.">>
         /\ UNCHANGED <<file, fileName, loading, statusPill, analysis, minRisk,
                        topN, rewriteBySentence, analyzePending, rewritePending>>
    ELSE /\ AnalyzeCalls < MaxAnalyzeCalls
         /\ error' = EmptyStr
         /\ loading' = TRUE
         /\ statusPill' = "Analyzing"
         /\ analyzePending' = [analyzePending EXCEPT ![file] = @ + 1]
         /\ UNCHANGED <<file, fileName, analysis, minRisk, topN,
                        rewriteBySentence, rewritePending>>

\* The Analyze button: disabled={loading || !file}
AnalyzeDisabled == loading \/ file = NoFile

ClickAnalyze == ~AnalyzeDisabled /\ analyzePdf /\ UNCHANGED earlierVars

\* analyzePdfOk as it would be without setRewriteBySentence({}).
analyzePdfOkKeepsRewrites(f, data) ==
    /\ analyzePending[f] > 0
    /\ analyzePending' = [analyzePending EXCEPT ![f] = @ - 1]
    /\ analysis' = <<data>>
    /\ statusPill' = "Done"
    /\ minRisk' = DefaultMinRisk
    /\ topN' = DefaultTopN
    /\ loading' = FALSE
    /\ UNCHANGED <<file, fileName, error, rewriteBySentence, rewritePending>>

\* analyzePdf() resumed with a 2xx response whose body is data
analyzePdfOk(f, data) ==
    /\ analyzePending[f] > 0
    /\ analyzePending' = [analyzePending EXCEPT ![f] = @ - 1]
    /\ analysis' = <<data>>
    /\ statusPill' = "Done"
    /\ minRisk' = DefaultMinRisk
    /\ topN' = DefaultTopN
    /\ rewriteBySentence' = NoEntries
    /\ loading' = FALSE
    /\ UNCHANGED <<file, fileName, error, rewritePending>>

\* analyzePdfFailed as it would be if a failure dropped the stored result.
analyzePdfFailedDropsResult(f, failure) ==
    /\ analyzePending[f] > 0
    /\ analyzePending' = [analyzePending EXCEPT ![f] = @ - 1]
    /\ statusPill' = "Error"
    /\ error' = MsgOr(Caught("Analyze", failure), <<"Analyze failed.">>)
    /\ analysis' = NoAnalysis
    /\ loading' = FALSE
    /\ UNCHANGED <<file, fileName, minRisk, topN, rewriteBySentence,
                   rewritePending>>

\* analyzePdf() resumed with a non-2xx response or an exception
analyzePdfFailed(f, failure) ==
    /\ analyzePending[f] > 0
    /\ analyzePending' = [analyzePending EXCEPT ![f] = @ - 1]
    /\ statusPill' = "Error"
    /\ error' = MsgOr(Caught("Analyze", failure), <<"Analyze failed.">>)
    /\ loading' = FALSE
    /\ UNCHANGED <<file, fileName, analysis, minRisk, topN, rewriteBySentence,
                   rewritePending>>

\* rewriteSentence(sentence) up to the await of fetch()
\* A request whose Loading entry carries the previous entry's error along.
rewriteSentenceCarriesError(key) ==
    IF HaveOutput(key)
    THEN UNCHANGED vars
    ELSE /\ rewritePending[key] < MaxRewriteCalls
         /\ rewriteBySentence' =
                Put(rewriteBySentence, key,
                    [loading |-> TRUE,
                     error |-> IF HasEntry(rewriteBySentence, key)
                               THEN rewriteBySentence[key].error
                               ELSE EmptyStr,
                     output |-> PrevOutput(rewriteBySentence, key)])
         /\ rewritePending' = [rewritePending EXCEPT ![key] = @ + 1]
         /\ UNCHANGED <<sessionVars, minRisk, topN>>

rewriteSentence(key) ==
    IF HaveOutput(key)
    THEN UNCHANGED vars
    ELSE /\ rewritePending[key] < MaxRewriteCalls
         /\ rewriteBySentence' =
                Put(rewriteBySentence, key,
                    [loading |-> TRUE, error |-> EmptyStr,
                     output |-> PrevOutput(rewriteBySentence, key)])
         /\ rewritePending' = [rewritePending EXCEPT ![key] = @ + 1]
         /\ UNCHANGED <<sessionVars, minRisk, topN>>

\* A click on the Rewrite button of a card of the sentence
ClickRewrite(key) ==
    /\ key \in Displayed
    /\ ~RewriteDisabled(key)
    /\ rewriteSentence(key)

\* A successful rewrite stored as extracted, with no placeholder for an empty
\* one.
rewriteSentenceOkNoPlaceholder(key, data) ==
    /\ rewritePending[key] > 0
    /\ rewritePending' = [rewritePending EXCEPT ![key] = @ - 1]
    /\ rewriteBySentence' =
           Put(rewriteBySentence, key,
               [loading |-> FALSE, error |-> EmptyStr,
                output |-> ExtractRewrite(data)])
    /\ UNCHANGED <<sessionVars, minRisk, topN>>

\* A successful rewrite stored without the functional update: the completion
\* writes its own entry over a mapping that holds no other key's entry.
rewriteSentenceOkOverwrites(key, data) ==
    /\ rewritePending[key] > 0
    /\ rewritePending' = [rewritePending EXCEPT ![key] = @ - 1]
    /\ rewriteBySentence' =
           Put(NoEntries, key,
               [loading |-> FALSE, error |-> EmptyStr,
                output |-> StrOr(ExtractRewrite(data), "(empty rewrite)")])
    /\ UNCHANGED <<sessionVars, minRisk, topN>>

\* rewriteSentence(sentence) resumed with a 2xx response whose body is data
rewriteSentenceOk(key, data) ==
    /\ rewritePending[key] > 0
    /\ rewritePending' = [rewritePending EXCEPT ![key] = @ - 1]
    /\ rewriteBySentence' =
           Put(rewriteBySentence, key,
               [loading |-> FALSE, error |-> EmptyStr,
                output |-> StrOr(ExtractRewrite(data), "(empty rewrite)")])
    /\ UNCHANGED <<sessionVars, minRisk, topN>>

\* A failed rewrite that also reports into the session-level error message.
rewriteSentenceFailedSetsError(key, failure) ==
    /\ rewritePending[key] > 0
    /\ rewritePending' = [rewritePending EXCEPT ![key] = @ - 1]
    /\ rewriteBySentence' =
           Put(rewriteBySentence, key,
               [loading |-> FALSE,
                error |-> MsgOr(Caught("Rewrite", failure), <<"Rewrite failed.">>),
                output |-> ""])
    /\ error' = MsgOr(Caught("Rewrite", failure), <<"Rewrite failed.">>)
    /\ UNCHANGED <<file, fileName, loading, statusPill, analysis,
                   analyzePending, minRisk, topN>>

\* A failed rewrite that is swallowed: the call ends and the entry is left as
\* it was.
rewriteSentenceFailedSilently(key, failure) ==
    /\ rewritePending[key] > 0
    /\ rewritePending' = [rewritePending EXCEPT ![key] = @ - 1]
    /\ UNCHANGED <<rewriteBySentence, sessionVars, minRisk, topN>>

\* rewriteSentence(sentence) resumed with a non-2xx response or an exception
rewriteSentenceFailed(key, failure) ==
    /\ rewritePending[key] > 0
    /\ rewritePending' = [rewritePending EXCEPT ![key] = @ - 1]
    /\ rewriteBySentence' =
           Put(rewriteBySentence, key,
               [loading |-> FALSE,
                error |-> MsgOr(Caught("Rewrite", failure), <<"Rewrite failed.">>),
                output |-> ""])
    /\ UNCHANGED <<sessionVars, minRisk, topN>>

\* The "Min risk score" slider: setMinRisk(Number(e.target.value))
onMinRisk(v) ==
    /\ analysis # NoAnalysis
    /\ minRisk' = v
    /\ UNCHANGED <<sessionVars, topN, rewriteBySentence, rewritePending>>

\* The "Show top N" field: setTopN(Number(e.target.value))
onTopN(v) ==
    /\ analysis # NoAnalysis
    /\ topN' = v
    /\ UNCHANGED <<sessionVars, minRisk, rewriteBySentence, rewritePending>>

-----------------------------------------------------------------------------
(* The session model: the page as the user drives it *)

SessionMinRisk == {DefaultMinRisk, 8}
SessionTopN == {DefaultTopN, 1}

PickFile ==
    /\ \E f \in Files \cup {NoFile} : onPickFile(f)
    /\ UNCHANGED earlierVars
AnalyzeOk ==
    /\ \E f \in Files, data \in SessionDocs : analyzePdfOk(f, data)
    /\ UNCHANGED earlierVars
AnalyzeFailed ==
    /\ \E f \in Files, x \in Failures : analyzePdfFailed(f, x)
    /\ UNCHANGED earlierVars
Rewrite ==
    /\ \E key \in Keys : ClickRewrite(key)
    /\ UNCHANGED earlierVars
RewriteOk ==
    /\ \E key \in Keys, data \in RewriteBodies : rewriteSentenceOk(key, data)
    /\ UNCHANGED earlierVars
RewriteFailed ==
    /\ \E key \in Keys, x \in Failures : rewriteSentenceFailed(key, x)
    /\ UNCHANGED earlierVars
MoveMinRisk ==
    /\ \E v \in SessionMinRisk : onMinRisk(v)
    /\ UNCHANGED earlierVars
TypeTopN ==
    /\ \E v \in SessionTopN : onTopN(v)
    /\ UNCHANGED earlierVars

Next ==
    \/ PickFile
    \/ ClickAnalyze
    \/ AnalyzeOk
    \/ AnalyzeFailed
    \/ Rewrite
    \/ RewriteOk
    \/ RewriteFailed
    \/ MoveMinRisk
    \/ TypeTopN

Spec == Init /\ [][Next]_vars

-----------------------------------------------------------------------------
(* The direct model: analyzePdf is also invoked whatever the state of the  *)
(* Analyze button, so with no file chosen or with a call outstanding.      *)

NextDirect ==
    \/ Next
    \/ analyzePdf /\ UNCHANGED earlierVars

SpecDirect == Init /\ [][NextDirect]_vars

-----------------------------------------------------------------------------
(* The view model: the derived views over the documents of ViewDocs, from  *)
(* the state a successful analysis leaves, under the two filter controls.  *)

TopNInputs == {-3, 0, 1, 2, 3, 5, 10, 200, 201, 500}

InitView ==
    /\ file = "a.pdf"
    /\ fileName = "a.pdf"
    /\ loading = FALSE
    /\ statusPill = "Done"
    /\ error = EmptyStr
    /\ analysis \in {<<d>> : d \in ViewDocs}
    /\ minRisk = DefaultMinRisk
    /\ topN = DefaultTopN
    /\ rewriteBySentence = NoEntries
    /\ analyzePending = [f \in Files |-> 0]
    /\ rewritePending = [k \in Keys |-> 0]
    /\ status = "idle"
    /\ result = NoAnalysis

SlideMinRisk ==
    /\ \E v \in SliderMin..SliderMax : onMinRisk(v)
    /\ UNCHANGED earlierVars
EnterTopN ==
    /\ \E v \in TopNInputs : onTopN(v)
    /\ UNCHANGED earlierVars

NextView ==
    \/ SlideMinRisk
    \/ EnterTopN

SpecView == InitView /\ [][NextView]_vars

-----------------------------------------------------------------------------
(* Properties of the rewrite cache and of the session under outstanding    *)
(* calls                                                                   *)

IsSuccess(m, key) ==
    /\ HasEntry(m, key)
    /\ ~m[key].loading
    /\ m[key].error = EmptyStr
    /\ m[key].output # ""

\* A step that replaces the session: a file selection or the application of
\* a successful /analyze response.
SessionReplaced == PickFile \/ AnalyzeOk

\* C1: in every reachable state at most one /rewrite call per sentence text
\* is outstanding, also after a file selection or a successful submit has
\* cleared the cache while a call was outstanding.
C1_OneRewriteCallPerKey == \A key \in Keys : rewritePending[key] <= 1

\* C2: once the entry of a sentence is Success(output), no step of the same
\* session issues a /rewrite call for it or changes the entry.
C2_SuccessIsPermanent ==
    [][\A key \in Keys :
         (IsSuccess(rewriteBySentence, key) /\ ~SessionReplaced)
         => /\ rewritePending'[key] <= rewritePending[key]
            /\ HasEntry(rewriteBySentence', key)
            /\ rewriteBySentence'[key] = rewriteBySentence[key]]_vars

\* C3: an /analyze call that resolves after another file has been selected
\* (the chosen file is no longer the one the call carries) stores no result
\* and leaves the status as it is.
C3_StaleAnalyzeDiscarded ==
    [][\A f \in Files :
         (file # f /\ analyzePending[f] > 0
          /\ analyzePending'[f] < analyzePending[f])
         => (analysis' = analysis /\ statusPill' = statusPill)]_vars

\* C4: a /rewrite call whose session has been replaced (its sentence has no
\* entry any more: the mapping was cleared after the call was issued) writes
\* no entry into the mapping when it resolves.
C4_StaleRewriteNotWritten ==
    [][\A key \in Keys :
         (~HasEntry(rewriteBySentence, key) /\ rewritePending[key] > 0
          /\ rewritePending'[key] < rewritePending[key])
         => ~HasEntry(rewriteBySentence', key)]_vars

-----------------------------------------------------------------------------
(* Properties of submit *)

Parts(m) == {m[i] : i \in DOMAIN m}

\* C5: the step that applies a successful /analyze response stores that
\* response, sets the filters to minRisk = 1 and topN = 10, sets the status to
\* Done and empties the rewrite mapping, so no sentence that had an entry has
\* one afterwards.
C5_SuccessResetsSession ==
    [][\A f \in Files, data \in SessionDocs :
         analyzePdfOk(f, data)
         => /\ analysis' = <<data>>
            /\ minRisk' = 1
            /\ topN' = 10
            /\ statusPill' = "Done"
            /\ \A key \in Keys : ~HasEntry(rewriteBySentence', key)]_vars

\* A successful analysis has been applied over a session in which a rewrite
\* had been requested: its call is still outstanding and its entry is gone.
C5_Witness ==
    /\ statusPill = "Done"
    /\ analysis # NoAnalysis
    /\ minRisk = 1
    /\ topN = 10
    /\ rewriteBySentence = NoEntries
    /\ \E key \in Keys : rewritePending[key] > 0

C7_NoFileSetsErrorStatus ==
    [][(file = NoFile /\ analyzePdf)
       => (error' # EmptyStr /\ statusPill' = "Error")]_vars

\* C7 as amended: analyzePdf with no file chosen sets the session-level
\* error message "Choose a PDF first." and leaves the status as it is.
C7_NoFileSetsMessageOnly ==
    [][(file = NoFile /\ analyzePdf)
       => (error' = <<"Choose a PDF first.">> /\ statusPill' = statusPill)]_vars

\* analyzePdf has run with no file chosen on the fresh page: the message is
\* set and the status is still Idle.
C7_Witness ==
    /\ file = NoFile
    /\ error = <<"Choose a PDF first.">>
    /\ statusPill = "Idle"

\* C8: analyzePdf with no file chosen issues no /analyze call, leaves the
\* loading flag as it is and leaves the stored result, the filters and the
\* rewrite mapping unchanged.
C8_NoFileFailsFast ==
    [][(file = NoFile /\ analyzePdf)
       => /\ analyzePending' = analyzePending
          /\ loading' = loading
          /\ analysis' = analysis
          /\ minRisk' = minRisk
          /\ topN' = topN
          /\ rewriteBySentence' = rewriteBySentence]_vars

\* analyzePdf has run with no file chosen after a file had been selected and
\* removed: no call is outstanding and the loading flag is off.
C8_Witness ==
    /\ file = NoFile
    /\ error = <<"Choose a PDF first.">>
    /\ statusPill = "Ready"
    /\ ~loading
    /\ AnalyzeCalls = 0

-----------------------------------------------------------------------------
(* Properties of the derived views *)

\* The least index of t after index from that holds x, Len(t) + 1 if none.
NextIndex(t, from, x) ==
    IF \E j \in (from + 1)..Len(t) : t[j] = x
    THEN CHOOSE j \in (from + 1)..Len(t) :
             t[j] = x /\ \A k \in (from + 1)..(j - 1) : t[k] # x
    ELSE Len(t) + 1

\* The index of t at which s[lo..hi], matched from the left after index from,
\* ends; beyond Len(t) if it does not fit.
RECURSIVE MatchEnd(_, _, _, _, _)
MatchEnd(s, lo, hi, t, from) ==
    IF from > Len(t) THEN from
    ELSE IF lo = hi THEN NextIndex(t, from, s[lo])
    ELSE LET mid == (lo + hi) \div 2
         IN  MatchEnd(s, mid + 1, hi, t, MatchEnd(s, lo, mid, t, from))

\* s is made of elements of t, in the order they have in t.
IsSubsequence(s, t) ==
    s = <<>> \/ MatchEnd(s, 1, Len(s), t, 0) <= Len(t)

IsPrefix(s, t) == Len(s) <= Len(t) /\ s = SubSeq(t, 1, Len(s))

\* The number of indices of s that hold x.
Count(s, x) == Cardinality({i \in DOMAIN s : s[i] = x})

\* s is arr sorted by score, descending: the same sentences as often, no
\* score below a later one, and two sentences of one score in the order they
\* have in arr.
IsDescendingSortOf(s, arr) ==
    /\ Len(s) = Len(arr)
    /\ \A x \in Range(arr) \cup Range(s) : Count(s, x) = Count(arr, x)
    /\ \A i \in 1..(Len(s) - 1) : ScoreOf(s[i]) >= ScoreOf(s[i + 1])
    /\ \A x, y \in Range(arr) :
           (x # y /\ ScoreOf(x) = ScoreOf(y)
            /\ IsSubsequence(<<x, y>>, arr) /\ ~IsSubsequence(<<y, x>>, arr))
           => ~IsSubsequence(<<y, x>>, s)

\* Values of minRisk inside and outside the slider and the clamp.
MinRiskProbe == {-5, 4, 11, 999, 1000, 1500}

ExampleSentences == <<SS("A", 2), SS("B", 9), SS("C", 5)>>

\* C9: for every document and every minRisk, every sentence of the filtered
\* view has a score (0 when absent) of at least clamp(minRisk, 0, 999), and
\* the filtered view is a subsequence of all_sentences sorted by score,
\* descending; [A:2, B:9, C:5] with minRisk = 4 gives [B:9, C:5].
C9_FilteredView ==
    \A sorted \in {allSorted} : \A view \in {filtered} :
        /\ IsDescendingSortOf(sorted, AllSentences(analysis))
        /\ \A i \in DOMAIN view :
               ScoreOf(view[i]) >= Max2(0, Min2(999, minRisk))
        /\ IsSubsequence(view, sorted)
        /\ \A mr \in MinRiskProbe : \A v \in {filteredOf(sorted, mr)} :
               /\ \A i \in DOMAIN v : ScoreOf(v[i]) >= Max2(0, Min2(999, mr))
               /\ IsSubsequence(v, sorted)
        /\ (AllSentences(analysis) = ExampleSentences /\ minRisk = 4)
               => view = <<SS("B", 9), SS("C", 5)>>

\* The example of C9: [A:2, B:9, C:5] under minRisk = 4 and topN = 10.
C9_Witness ==
    /\ AllSentences(analysis) = ExampleSentences
    /\ minRisk = 4
    /\ topN = 10
    /\ filtered = <<SS("B", 9), SS("C", 5)>>

\* C10: the shown view under topN = 0 is the one under topN = 1, the shown
\* view under topN = 500 is the one under topN = 200, and the shown view has
\* at most 200 entries and is a prefix of the filtered view.
C10_TopNClamped ==
    \A view \in {filtered} : \A shown \in {topShownOf(view, topN)} :
        /\ topN = 0 => shown = topShownOf(view, 1)
        /\ topN = 500 => shown = topShownOf(view, 200)
        /\ Len(shown) <= 200
        /\ IsPrefix(shown, view)

\* C11: the judge-friendly shortlist is the backend's top_risk_sentences,
\* verbatim and whatever the filter state, when that list is non-empty; when it
\* is absent or empty the shortlist is exactly the first 5 entries of the
\* sorted, filtered, topN-truncated view.
C11_JudgeFriendlyShortlist ==
    \A top \in {TopRisk(analysis)} : \A shown \in {topShown} :
        /\ top # <<>> => judgeFriendly = top
        /\ top = <<>> =>
              /\ Len(judgeFriendly) = Min2(5, Len(shown))
              /\ \A i \in 1..Len(judgeFriendly) : judgeFriendly[i] = shown[i]

\* The fallback cuts a longer view: an empty backend list, the slider moved to
\* 4, six sentences shown, five of them shortlisted.
C11_Witness ==
    /\ analysis # NoAnalysis
    /\ "top_risk_sentences" \in DOMAIN analysis[1]
    /\ TopRisk(analysis) = <<>>
    /\ minRisk = 4
    /\ Len(topShown) = 6
    /\ Len(judgeFriendly) = 5

IsError(m, key) ==
    /\ HasEntry(m, key)
    /\ ~m[key].loading
    /\ m[key].error # EmptyStr
    /\ m[key].output = ""

\* C12: a failed rewrite for key K changes only K's entry, which becomes Error
\* and carries the failure's message; the session-level error message, the
\* status, the stored analysis, the filter state and the entries of every other
\* key are unchanged.
C12_RewriteFailureIsLocal ==
    [][\A key \in Keys : \A failure \in Failures :
         rewriteSentenceFailed(key, failure) =>
            /\ IsError(rewriteBySentence', key)
            /\ rewriteBySentence'[key].error \in
                   {Caught("Rewrite", failure), <<"Rewrite failed.">>}
            /\ error' = error
            /\ statusPill' = statusPill
            /\ analysis' = analysis
            /\ minRisk' = minRisk /\ topN' = topN
            /\ DOMAIN rewriteBySentence' = DOMAIN rewriteBySentence \cup {key}
            /\ \A k \in DOMAIN rewriteBySentence \ {key} :
                   rewriteBySentence'[k] = rewriteBySentence[k]]_vars

\* One key failed next to another key's success, in a finished session with an
\* empty session-level message.
C12_Witness ==
    /\ statusPill = "Done"
    /\ error = EmptyStr
    /\ \E k1, k2 \in Keys :
          /\ IsError(rewriteBySentence, k1)
          /\ IsSuccess(rewriteBySentence, k2)

\* C13: no update is lost across keys.  Whenever the call of one key completes,
\* in whatever order the calls in flight resolve, the completion is applied to
\* that key's entry and the entry of every other key (still Loading, or the
\* outcome of an earlier completion) is kept, so the mapping ends with the
\* outcomes of both.
C13_NoLostUpdates ==
    [][\A k1 \in Keys :
         (rewritePending'[k1] < rewritePending[k1]) =>
            /\ HasEntry(rewriteBySentence', k1)
            /\ ~rewriteBySentence'[k1].loading
            /\ \A k2 \in DOMAIN rewriteBySentence \ {k1} :
                  /\ HasEntry(rewriteBySentence', k2)
                  /\ rewriteBySentence'[k2] = rewriteBySentence[k2]]_vars

\* Two keys whose calls overlapped: the first completion is stored and the
\* other key is still Loading with its call outstanding.
C13_Witness ==
    \E k1, k2 \in Keys :
       /\ k1 # k2
       /\ HasEntry(rewriteBySentence, k1) /\ ~rewriteBySentence[k1].loading
       /\ rewritePending[k1] = 0
       /\ HasEntry(rewriteBySentence, k2) /\ rewriteBySentence[k2].loading
       /\ rewritePending[k2] > 0

\* C14: selectFile is a hard reset.  From any state, right after onPickFile the
\* chosen file is the new one, the status is Ready, the stored analysis is
\* absent, the rewrite mapping is empty and the error message is empty.
C14_PickFileIsHardReset ==
    [][\A f \in Files \cup {NoFile} :
         onPickFile(f) =>
            /\ file' = f
            /\ statusPill' = "Ready"
            /\ analysis' = NoAnalysis
            /\ rewriteBySentence' = NoEntries
            /\ error' = EmptyStr]_vars

\* A reset of a session that had an analysis and a rewrite under way: the
\* rewrite call is still outstanding and nothing of the session is left.
C14_Witness ==
    /\ file = "b.pdf"
    /\ statusPill = "Ready"
    /\ analysis = NoAnalysis
    /\ rewriteBySentence = NoEntries
    /\ error = EmptyStr
    /\ \E key \in Keys : rewritePending[key] > 0

\* C15: a failure can be retried.  A rewrite request for a key whose entry is
\* Error is not taken for an entry that already has its output: it issues a new
\* /rewrite call and moves the entry to Loading with the error cleared and an
\* empty output.
C15_RetryAfterFailure ==
    [][\A key \in Keys :
         IsError(rewriteBySentence, key) =>
            /\ ~HaveOutput(key)
            /\ ~RewriteDisabled(key)
            /\ rewriteSentence(key) =>
                  /\ rewritePending'[key] = rewritePending[key] + 1
                  /\ rewriteBySentence'[key] =
                         [loading |-> TRUE, error |-> EmptyStr, output |-> ""]]_vars

\* The entry of a sentence on display is Error and none of its calls is
\* outstanding: a click on its Rewrite button is the retry.
C15_Witness ==
    \E key \in Displayed :
       /\ IsError(rewriteBySentence, key)
       /\ rewritePending[key] = 0

\* C16: the status indicator only moves along Ready -> Analyzing -> Done|Error:
\* apart from the reset to Ready by onPickFile, the status enters Done or Error
\* only from a state whose status is Analyzing, never directly from Ready.
C16_DoneOrErrorOnlyFromAnalyzing ==
    [][(statusPill' \in {"Done", "Error"} /\ statusPill' # statusPill)
          => statusPill = "Analyzing"]_vars

\* The session under the assumption that every network call eventually
\* resolves: the fetch of each outstanding /analyze and /rewrite call settles
\* (2xx, non-2xx or exception) and its continuation runs.
ResolveAnalyze(f) ==
    /\ \/ \E data \in SessionDocs : analyzePdfOk(f, data)
       \/ \E failure \in Failures : analyzePdfFailed(f, failure)
    /\ UNCHANGED earlierVars

ResolveRewrite(key) ==
    /\ \/ \E data \in RewriteBodies : rewriteSentenceOk(key, data)
       \/ \E failure \in Failures : rewriteSentenceFailed(key, failure)
    /\ UNCHANGED earlierVars

\* The sentences a session can show a card for, hence issue a /rewrite call for.
SessionKeys ==
    {x.sentence : x \in UNION {Range(AllSentences(<<d>>)) \cup Range(TopRisk(<<d>>)) :
                                  d \in SessionDocs}}

EveryCallResolves ==
    /\ \A f \in Files : WF_vars(ResolveAnalyze(f))
    /\ \A key \in SessionKeys : WF_vars(ResolveRewrite(key))

SpecFair == Init /\ [][Next]_vars /\ EveryCallResolves

\* C17: no failure is silently dropped and no request hangs.  When every
\* network call eventually resolves, every rewrite entry that is Loading
\* eventually becomes Success or Error with a non-empty message, and after every
\* submit the loading flag eventually becomes false with the status Done or
\* Error.
C17_NothingHangs ==
    /\ \A key \in SessionKeys :
          (HasEntry(rewriteBySentence, key) /\ rewriteBySentence[key].loading)
          ~> (IsSuccess(rewriteBySentence, key) \/ IsError(rewriteBySentence, key))
    /\ loading ~> (~loading /\ statusPill \in {"Done", "Error"})

\* A failed rewrite and a failed analysis, both settled and both reported.
C17_Witness ==
    /\ ~loading
    /\ statusPill = "Error"
    /\ error # EmptyStr
    /\ \E key \in Keys : IsError(rewriteBySentence, key)
    /\ \A key \in Keys : rewritePending[key] = 0

IsLoading(m, key) ==
    /\ HasEntry(m, key)
    /\ m[key].loading
    /\ m[key].error = EmptyStr

\* C18: every stored rewrite entry is well-formed in every reachable state.  It
\* is exactly one of Loading (loading true, error empty), Success (loading
\* false, error empty, output non-empty, an empty extracted rewrite being stored
\* as "(empty rewrite)") or Error (loading false, error non-empty, output
\* empty); no entry is a success with no content or has both an error and an
\* output.
C18_EntriesWellFormed ==
    \A key \in DOMAIN rewriteBySentence :
       /\ DOMAIN rewriteBySentence[key] = {"loading", "error", "output"}
       /\ \/ IsLoading(rewriteBySentence, key)
          \/ IsSuccess(rewriteBySentence, key)
          \/ IsError(rewriteBySentence, key)
       /\ ~(rewriteBySentence[key].error # EmptyStr
            /\ rewriteBySentence[key].output # "")

\* An empty rewrite stored under its placeholder next to a key whose call is
\* still outstanding.
C18_Witness ==
    \E k1, k2 \in Keys :
       /\ IsSuccess(rewriteBySentence, k1)
       /\ rewriteBySentence[k1].output = "(empty rewrite)"
       /\ IsLoading(rewriteBySentence, k2)

\* C19: when submit is dispatched only while its control is enabled (a file is
\* chosen and loading is false), at most one /analyze call is outstanding at any
\* time, and the loading flag is true exactly when an /analyze call is
\* outstanding, also when a file is picked while the call is pending.
C19_OneAnalyzeCallAndLoading ==
    /\ AnalyzeCalls <= 1
    /\ loading <=> AnalyzeCalls > 0

\* A file picked while the call of the previous one is pending: the status is
\* back to Ready, the call is still outstanding and loading is still true.
C19_Witness ==
    /\ statusPill = "Ready"
    /\ file = "b.pdf"
    /\ analyzePending["a.pdf"] = 1
    /\ loading

\* C20: status, result and error stay consistent when submit is dispatched only
\* with a file chosen.  In every reachable state the status Done implies that an
\* analysis is stored and the error message is empty, and the status Error
\* implies that the error message is non-empty.
C20_StatusResultErrorConsistent ==
    /\ statusPill = "Done" => (analysis # NoAnalysis /\ error = EmptyStr)
    /\ statusPill = "Error" => error # EmptyStr

\* A failure reported in a session with no result: the call outlived a file
\* pick and then failed.
C20_Witness ==
    /\ statusPill = "Error"
    /\ error # EmptyStr
    /\ analysis = NoAnalysis
    /\ ~loading

-----------------------------------------------------------------------------
(* The earlier App (src/frontend/src/App.js): no filters, no rewrites.  Its *)
(* state is file, status, error and result; the state that only the later  *)
(* App has stays as constructed.                                           *)

laterVars == <<fileName, loading, statusPill, analysis, minRisk, topN,
               rewriteBySentence, rewritePending>>

\* The onChange of the file input
onChange(f) ==
    /\ file' = f
    /\ status' = "idle"
    /\ error' = EmptyStr
    /\ result' = NoAnalysis
    /\ UNCHANGED <<analyzePending, laterVars>>

\* analyze(), up to its await fetch(...)
analyze ==
    IF file = NoFile
    THEN UNCHANGED vars
    ELSE /\ AnalyzeCalls < MaxAnalyzeCalls
         /\ status' = "analyzing"
         /\ error' = EmptyStr
         /\ result' = NoAnalysis
         /\ analyzePending' = [analyzePending EXCEPT ![file] = @ + 1]
         /\ UNCHANGED <<file, laterVars>>

\* The "Analyze PDF" button: disabled={!file || status === "analyzing"}
analyzeDisabled == file = NoFile \/ status = "analyzing"

\* analyze() resumed with a 2xx response whose body is data
analyzeOk(f, data) ==
    /\ analyzePending[f] > 0
    /\ analyzePending' = [analyzePending EXCEPT ![f] = @ - 1]
    /\ result' = <<data>>
    /\ status' = "done"
    /\ UNCHANGED <<file, error, laterVars>>

\* `Backend error (${res.status}): ${text}`
BackendMessage(f) == <<"Backend error (", f.status, "): ">> \o f.body

\* analyze() resumed with a non-2xx response, or with an exception that its
\* catch block reports under one fixed message
analyzeFailed(f, failure) ==
    /\ analyzePending[f] > 0
    /\ analyzePending' = [analyzePending EXCEPT ![f] = @ - 1]
    /\ status' = "error"
    /\ error' = IF failure.kind = "http"
                THEN BackendMessage(failure)
                ELSE <<"Could not reach backend. Is uvicorn running on :8000?">>
    /\ UNCHANGED <<file, result, laterVars>>

ChooseFile == \E f \in Files \cup {NoFile} : onChange(f)
PressAnalyze == ~analyzeDisabled /\ analyze
EarlierAnalyzeOk == \E f \in Files, data \in SessionDocs : analyzeOk(f, data)
\* The failures of /analyze the earlier App tells apart: a non-2xx response
\* with or without a body text, and an exception.
EarlierFailures ==
    Failures \cup { [kind |-> "http", status |-> "422", body |-> EmptyStr] }

EarlierAnalyzeFailed ==
    \E f \in Files, x \in EarlierFailures : analyzeFailed(f, x)

NextEarlier ==
    \/ ChooseFile
    \/ PressAnalyze
    \/ EarlierAnalyzeOk
    \/ EarlierAnalyzeFailed

SpecEarlier == Init /\ [][NextEarlier]_vars

\* C21: in the earlier App, after any sequence of file selections, analyze
\* calls and call resolutions in any interleaving, a result is stored exactly
\* when the status is "done" and the error message is non-empty exactly when
\* the status is "error".
C21_EarlierStatusResultError ==
    /\ result # NoAnalysis <=> status = "done"
    /\ error # EmptyStr <=> status = "error"

====
